---- MODULE Spec2Model ----
(***************************************************************************)
(* The three benchmark scripts of s3-benchmark as one state machine:       *)
(*   upload-benchmark.py   (mode = "upload")                               *)
(*   download-benchmark.py (mode = "download")                             *)
(*   tune-multipart.py     (mode = "tune")                                 *)
(* Each script is a single thread; pc is its position in main().  The      *)
(* S3 transfer client (boto3), the clock and matplotlib are environment:   *)
(* a transfer returns after a measured number of clock ticks or raises,    *)
(* and rendering the chart returns or raises.                              *)
(***************************************************************************)
EXTENDS Integers, Sequences, FiniteSets, TLC

\* ---------------------------------------------------------------- bounds
MaxLen == 2          \* longest comma separated list read from the environment
MaxConfigs == 8      \* largest tuning sweep (product of the four list lengths)
MaxRows == 3         \* longest ResultSet handed to the selector on its own
Durations == 0..1    \* clock ticks a transfer can be measured to take

\* ------------------------------------------------------- program constants
Mega == 1000000
DefaultConcurrency == 10
MiB == 1024 * 1024
DefaultThreshold == 50 * MiB
DefaultChunksize == 50 * MiB

\* ------------------------------------------------------------- the inputs
\* os.getenv(...).split(',') always yields at least one token; a token is
\* the text between two commas.
SizeTokens == {"", "-1", "0", "1", "2"}
ThresholdTokens == {"5", "8"}
ConcurrencyTokens == {"1", "2"}
ChunksizeTokens == {"4", "6"}
UseThreadsTokens == {"True", "no"}
TuneSizeTokens == {"0", "1"}

TokenLists(S) == UNION {[1..n -> S] : n \in 1..MaxLen}

\* int(token): defined for decimal literals, raises ValueError otherwise.
IsIntLiteral(tok) == tok \in {"-1", "0", "1", "2", "4", "5", "6", "8"}

IntOf(tok) ==
  CASE tok = "-1" -> -1
    [] tok = "0"  -> 0
    [] tok = "1"  -> 1
    [] tok = "2"  -> 2
    [] tok = "4"  -> 4
    [] tok = "5"  -> 5
    [] tok = "6"  -> 6
    [] tok = "8"  -> 8

\* list(map(int, tokens))
MapInt(tokens) == [k \in 1..Len(tokens) |-> IntOf(tokens[k])]

AllIntLiterals(tokens) == \A k \in 1..Len(tokens) : IsIntLiteral(tokens[k])

\* str.lower() on the tokens of the model
Lower(tok) == IF tok = "True" THEN "true" ELSE tok

\* use_threads.lower() in ['true', '1', 't', 'y', 'yes']
UseThreadsBool(tok) == Lower(tok) \in {"true", "1", "t", "y", "yes"}

\* TransferConfig(...)
TransferConfig(threshold, concurrency, chunksize, threads) ==
  [multipart_threshold |-> threshold, max_concurrency |-> concurrency,
   multipart_chunksize |-> chunksize, use_threads |-> threads]

\* ------------------------------------------------------------- throughput
\* A speed is the exact rational num/den (den > 0).
RECURSIVE GCD(_, _)
GCD(a, b) == IF b = 0 THEN a ELSE GCD(b, a % b)

\* a > b on rationals, cross-multiplied after removing the common factor of
\* the denominators
SpeedGreater(a, b) ==
  LET g == GCD(a.den, b.den)
  IN a.num * (b.den \div g) > b.num * (a.den \div g)

\* calculate_speed: file_size * 8 / time_taken / 1e6; the caller takes the
\* ZeroDivisionError branch when time_taken = 0.
calculate_speed(time_taken, file_size) ==
  [num |-> file_size * 8, den |-> time_taken * Mega]

\* ---------------------------------------------------------------- state
VARIABLES
  mode,          \* which script runs
  env,           \* the environment variables, already split at the commas
  pc,            \* position in main()
  configs,       \* file_sizes, or the tuples of parameter_combinations
  i,             \* number of loop iterations begun
  results,       \* the list results
  disk,          \* local files present: <<prefix, size>> is f'{prefix}_{size}mb.txt'
  active,        \* transfers handed to the S3 client that have not returned
  time_taken,    \* local of main()
  file_size,     \* local of main()
  speed_mbps,    \* local of main()
  csv,           \* the CSV file of this sweep
  plot,          \* the chart image of this sweep
  json,          \* the fastest-configuration JSON of this sweep
  best_params,   \* local of main() in tune-multipart.py
  err,           \* the exception that ended main(), "" when none
  events         \* what the current loop iteration has done so far

vars == <<mode, env, pc, configs, i, results, disk, active, time_taken,
          file_size, speed_mbps, csv, plot, json, best_params, err, events>>

NoSpeed == [num |-> 0, den |-> 1]
NoFile == [exists |-> FALSE, header |-> <<>>, rows |-> <<>>]
NoBest == [found |-> FALSE, dict |-> <<>>]

\* os.environ of a fixed-size sweep, and of a tuning sweep
FixedEnvs == {[FILE_SIZES |-> l] : l \in TokenLists(SizeTokens)}

TuneEnvs ==
  {e \in [TUNE_FILE_SIZE : TuneSizeTokens,
          TUNE_MULTIPART_THRESHOLD : TokenLists(ThresholdTokens),
          TUNE_MAX_CONCURRENCY : TokenLists(ConcurrencyTokens),
          TUNE_MULTIPART_CHUNKSIZE : TokenLists(ChunksizeTokens),
          TUNE_USE_THREADS : TokenLists(UseThreadsTokens)] :
     Len(e.TUNE_MULTIPART_THRESHOLD) * Len(e.TUNE_MAX_CONCURRENCY)
       * Len(e.TUNE_MULTIPART_CHUNKSIZE) * Len(e.TUNE_USE_THREADS) <= MaxConfigs}

Init ==
  /\ mode \in {"upload", "download", "tune"}
  /\ env \in IF mode = "tune" THEN TuneEnvs ELSE FixedEnvs
  /\ pc = "main"
  /\ configs = <<>>
  /\ i = 0
  /\ results = <<>>
  /\ disk = {}
  /\ active = {}
  /\ time_taken = 0
  /\ file_size = 0
  /\ speed_mbps = NoSpeed
  /\ csv = NoFile
  /\ plot = FALSE
  /\ json = NoBest
  /\ best_params = NoBest
  /\ err = ""
  /\ events = <<>>

\* an exception leaves main(): nothing after the raising statement runs
Raise(e) ==
  /\ err' = e
  /\ pc' = "aborted"

\* ================================================== upload-benchmark.py
UploadHeader ==
  <<"File Size (MB)", "Time Taken (s)", "Upload Speed (Mbps)",
    "Multipart Threshold (bytes)", "Max Concurrency",
    "Multipart Chunksize (bytes)", "Use Threads">>

UploadConfig ==
  TransferConfig(DefaultThreshold, DefaultConcurrency, DefaultChunksize,
                 UseThreadsBool("True"))

\* main(), lines 98-128: read the environment, build the config, results = []
Upload_Main ==
  /\ mode = "upload" /\ pc = "main"
  /\ IF AllIntLiterals(env.FILE_SIZES)
       THEN /\ configs' = MapInt(env.FILE_SIZES)
            /\ pc' = "for"
            /\ err' = err
       ELSE /\ Raise("ValueError")
            /\ configs' = configs
  /\ UNCHANGED <<mode, env, i, results, disk, active, time_taken, file_size,
                 speed_mbps, csv, plot, json, best_params, events>>

\* for size in file_sizes: the next size, or fall out of the loop
Upload_For ==
  /\ mode = "upload" /\ pc = "for"
  /\ IF i < Len(configs)
       THEN /\ i' = i + 1
            /\ pc' = "create_dummy_file"
       ELSE /\ i' = i
            /\ pc' = "save_results_to_csv"
  /\ events' = <<>>
  /\ UNCHANGED <<mode, env, configs, results, disk, active, time_taken,
                 file_size, speed_mbps, csv, plot, json, best_params, err>>

\* create_dummy_file(file_name, size): open(file_name, 'wb') creates the
\* file, then os.urandom(size * 1024 * 1024) raises ValueError for size < 0
Upload_CreateDummyFile ==
  /\ mode = "upload" /\ pc = "create_dummy_file"
  /\ disk' = disk \cup {<<"dummy", configs[i]>>}
  /\ events' = Append(events, "create")
  /\ IF configs[i] < 0
       THEN Raise("ValueError")
       ELSE /\ pc' = "upload_file"
            /\ err' = err
  /\ UNCHANGED <<mode, env, configs, i, results, active, time_taken,
                 file_size, speed_mbps, csv, plot, json, best_params>>

\* Upload_UploadFileCall preceded by the os.path.getsize of line 143
Upload_UploadFileCall_SizeFirst ==
  /\ mode = "upload" /\ pc = "upload_file"
  /\ file_size' = configs[i] * MiB
  /\ active' = active \cup {[run |-> i, direction |-> "upload",
                             path |-> <<"dummy", configs[i]>>,
                             key |-> <<"example", configs[i]>>,
                             config |-> TransferConfig(DefaultThreshold,
                                          DefaultConcurrency, DefaultChunksize,
                                          UseThreadsBool("True"))]}
  /\ events' = events \o <<"sample_size", "start_timer", "transfer">>
  /\ pc' = "upload_file_wait"
  /\ UNCHANGED <<mode, env, configs, i, results, disk, time_taken,
                 speed_mbps, csv, plot, json, best_params, err>>

\* upload_file, lines 46-47: start_time = time.time(); s3.upload_file(...)
Upload_UploadFileCall ==
  /\ mode = "upload" /\ pc = "upload_file"
  /\ active' = active \cup {[run |-> i, direction |-> "upload",
                             path |-> <<"dummy", configs[i]>>,
                             key |-> <<"example", configs[i]>>,
                             config |-> UploadConfig]}
  /\ events' = events \o <<"start_timer", "transfer">>
  /\ pc' = "upload_file_wait"
  /\ UNCHANGED <<mode, env, configs, i, results, disk, time_taken, file_size,
                 speed_mbps, csv, plot, json, best_params, err>>

\* upload_file, lines 47-50: s3.upload_file returns and the timer is
\* stopped, or it raises and the exception leaves main()
Upload_UploadFileReturn ==
  /\ mode = "upload" /\ pc = "upload_file_wait"
  /\ active' = {t \in active : t.run # i}
  /\ \/ \E d \in Durations :
          /\ time_taken' = d
          /\ events' = Append(events, "stop_timer")
          /\ pc' = "getsize"
          /\ err' = err
     \/ /\ Raise("TransferClientError")
        /\ UNCHANGED <<time_taken, events>>
  /\ UNCHANGED <<mode, env, configs, i, results, disk, file_size,
                 speed_mbps, csv, plot, json, best_params>>

\* line 143: file_size = os.path.getsize(file_name)
Upload_GetSize ==
  /\ mode = "upload" /\ pc = "getsize"
  /\ file_size' = configs[i] * MiB
  /\ events' = Append(events, "sample_size")
  /\ pc' = "calculate_speed"
  /\ UNCHANGED <<mode, env, configs, i, results, disk, active, time_taken,
                 speed_mbps, csv, plot, json, best_params, err>>

\* line 144: speed_mbps = calculate_speed(time_taken, file_size)
Upload_CalculateSpeed ==
  /\ mode = "upload" /\ pc = "calculate_speed"
  /\ IF time_taken = 0
       THEN /\ Raise("ZeroDivisionError")
            /\ speed_mbps' = speed_mbps
       ELSE /\ speed_mbps' = calculate_speed(time_taken, file_size)
            /\ pc' = "append"
            /\ err' = err
  /\ UNCHANGED <<mode, env, configs, i, results, disk, active, time_taken,
                 file_size, csv, plot, json, best_params, events>>

\* Upload_Append that inserts the row at the front of results
Upload_Append_Front ==
  /\ mode = "upload" /\ pc = "append"
  /\ results' = <<
       <<configs[i], time_taken, speed_mbps, DefaultThreshold,
         DefaultConcurrency, DefaultChunksize, UseThreadsBool("True")>> >>
       \o results
  /\ events' = Append(events, "append")
  /\ pc' = "remove"
  /\ UNCHANGED <<mode, env, configs, i, disk, active, time_taken, file_size,
                 speed_mbps, csv, plot, json, best_params, err>>

\* lines 150-158: results.append([...])
Upload_Append ==
  /\ mode = "upload" /\ pc = "append"
  /\ results' = Append(results,
       <<configs[i], time_taken, speed_mbps, UploadConfig.multipart_threshold,
         UploadConfig.max_concurrency, UploadConfig.multipart_chunksize,
         UploadConfig.use_threads>>)
  /\ events' = Append(events, "append")
  /\ pc' = "remove"
  /\ UNCHANGED <<mode, env, configs, i, disk, active, time_taken, file_size,
                 speed_mbps, csv, plot, json, best_params, err>>

\* Upload_Remove that leaves the dummy file in place
Upload_Remove_Skipped ==
  /\ mode = "upload" /\ pc = "remove"
  /\ disk' = disk
  /\ events' = Append(events, "remove")
  /\ pc' = "for"
  /\ UNCHANGED <<mode, env, configs, i, results, active, time_taken,
                 file_size, speed_mbps, csv, plot, json, best_params, err>>

\* line 161: os.remove(file_name)
Upload_Remove ==
  /\ mode = "upload" /\ pc = "remove"
  /\ disk' = disk \ {<<"dummy", configs[i]>>}
  /\ events' = Append(events, "remove")
  /\ pc' = "for"
  /\ UNCHANGED <<mode, env, configs, i, results, active, time_taken,
                 file_size, speed_mbps, csv, plot, json, best_params, err>>

\* save_results_to_csv(results, filename): header row, then writerows
Upload_SaveResultsToCsv ==
  /\ mode = "upload" /\ pc = "save_results_to_csv"
  /\ csv' = [exists |-> TRUE, header |-> UploadHeader, rows |-> results]
  /\ pc' = "plot_results"
  /\ UNCHANGED <<mode, env, configs, i, results, disk, active, time_taken,
                 file_size, speed_mbps, plot, json, best_params, err, events>>

\* plot_results(results, output_file): plt.savefig writes the image, or
\* matplotlib raises
Upload_PlotResults ==
  /\ mode = "upload" /\ pc = "plot_results"
  /\ \/ /\ plot' = TRUE
        /\ pc' = "done"
        /\ err' = err
     \/ /\ Raise("PlotError")
        /\ plot' = plot
  /\ UNCHANGED <<mode, env, configs, i, results, disk, active, time_taken,
                 file_size, speed_mbps, csv, json, best_params, events>>

\* ================================================ download-benchmark.py
DownloadHeader ==
  <<"File Size (MB)", "Time Taken (s)", "Download Speed (Mbps)",
    "Multipart Threshold (bytes)", "Max Concurrency",
    "Multipart Chunksize (bytes)", "Use Threads">>

DownloadConfig ==
  TransferConfig(DefaultThreshold, DefaultConcurrency, DefaultChunksize,
                 UseThreadsBool("True"))

\* The object example_{size}mb.txt in the bucket is the one an upload sweep
\* of that size put there.
RemoteObjectBytes(size) == IF size > 0 THEN size * MiB ELSE 0

\* main(), lines 91-120
Download_Main ==
  /\ mode = "download" /\ pc = "main"
  /\ IF AllIntLiterals(env.FILE_SIZES)
       THEN /\ configs' = MapInt(env.FILE_SIZES)
            /\ pc' = "for"
            /\ err' = err
       ELSE /\ Raise("ValueError")
            /\ configs' = configs
  /\ UNCHANGED <<mode, env, i, results, disk, active, time_taken, file_size,
                 speed_mbps, csv, plot, json, best_params, events>>

\* for size in file_sizes
Download_For ==
  /\ mode = "download" /\ pc = "for"
  /\ IF i < Len(configs)
       THEN /\ i' = i + 1
            /\ pc' = "download_file"
       ELSE /\ i' = i
            /\ pc' = "save_results_to_csv"
  /\ events' = <<>>
  /\ UNCHANGED <<mode, env, configs, results, disk, active, time_taken,
                 file_size, speed_mbps, csv, plot, json, best_params, err>>

\* download_file, lines 38-39: start_time = time.time(); s3.download_file(...)
Download_DownloadFileCall ==
  /\ mode = "download" /\ pc = "download_file"
  /\ active' = active \cup {[run |-> i, direction |-> "download",
                             path |-> <<"downloaded", configs[i]>>,
                             key |-> <<"example", configs[i]>>,
                             config |-> DownloadConfig]}
  /\ events' = events \o <<"start_timer", "transfer">>
  /\ pc' = "download_file_wait"
  /\ UNCHANGED <<mode, env, configs, i, results, disk, time_taken, file_size,
                 speed_mbps, csv, plot, json, best_params, err>>

\* download_file, lines 39-42: s3.download_file returns, leaving the file at
\* download_path, and the timer is stopped; or it raises, leaving no file
Download_DownloadFileReturn ==
  /\ mode = "download" /\ pc = "download_file_wait"
  /\ active' = {t \in active : t.run # i}
  /\ \/ \E d \in Durations :
          /\ time_taken' = d
          /\ disk' = disk \cup {<<"downloaded", configs[i]>>}
          /\ events' = Append(events, "stop_timer")
          /\ pc' = "getsize"
          /\ err' = err
     \/ /\ Raise("TransferClientError")
        /\ UNCHANGED <<time_taken, disk, events>>
  /\ UNCHANGED <<mode, env, configs, i, results, file_size, speed_mbps, csv,
                 plot, json, best_params>>

\* line 130: file_size = os.path.getsize(download_path)
Download_GetSize ==
  /\ mode = "download" /\ pc = "getsize"
  /\ file_size' = RemoteObjectBytes(configs[i])
  /\ events' = Append(events, "sample_size")
  /\ pc' = "calculate_speed"
  /\ UNCHANGED <<mode, env, configs, i, results, disk, active, time_taken,
                 speed_mbps, csv, plot, json, best_params, err>>

\* line 131: speed_mbps = calculate_speed(time_taken, file_size)
Download_CalculateSpeed ==
  /\ mode = "download" /\ pc = "calculate_speed"
  /\ IF time_taken = 0
       THEN /\ Raise("ZeroDivisionError")
            /\ speed_mbps' = speed_mbps
       ELSE /\ speed_mbps' = calculate_speed(time_taken, file_size)
            /\ pc' = "append"
            /\ err' = err
  /\ UNCHANGED <<mode, env, configs, i, results, disk, active, time_taken,
                 file_size, csv, plot, json, best_params, events>>

\* lines 137-145: results.append([...])
Download_Append ==
  /\ mode = "download" /\ pc = "append"
  /\ results' = Append(results,
       <<configs[i], time_taken, speed_mbps,
         DownloadConfig.multipart_threshold, DownloadConfig.max_concurrency,
         DownloadConfig.multipart_chunksize, DownloadConfig.use_threads>>)
  /\ events' = Append(events, "append")
  /\ pc' = "remove"
  /\ UNCHANGED <<mode, env, configs, i, disk, active, time_taken, file_size,
                 speed_mbps, csv, plot, json, best_params, err>>

\* line 148: os.remove(download_path)
Download_Remove ==
  /\ mode = "download" /\ pc = "remove"
  /\ disk' = disk \ {<<"downloaded", configs[i]>>}
  /\ events' = Append(events, "remove")
  /\ pc' = "for"
  /\ UNCHANGED <<mode, env, configs, i, results, active, time_taken,
                 file_size, speed_mbps, csv, plot, json, best_params, err>>

\* save_results_to_csv(results, filename)
Download_SaveResultsToCsv ==
  /\ mode = "download" /\ pc = "save_results_to_csv"
  /\ csv' = [exists |-> TRUE, header |-> DownloadHeader, rows |-> results]
  /\ pc' = "plot_results"
  /\ UNCHANGED <<mode, env, configs, i, results, disk, active, time_taken,
                 file_size, speed_mbps, plot, json, best_params, err, events>>

\* plot_results(results, output_file)
Download_PlotResults ==
  /\ mode = "download" /\ pc = "plot_results"
  /\ \/ /\ plot' = TRUE
        /\ pc' = "done"
        /\ err' = err
     \/ /\ Raise("PlotError")
        /\ plot' = plot
  /\ UNCHANGED <<mode, env, configs, i, results, disk, active, time_taken,
                 file_size, speed_mbps, csv, json, best_params, events>>

\* ==================================================== tune-multipart.py
TuneHeader ==
  <<"Multipart Threshold (bytes)", "Max Concurrency",
    "Multipart Chunksize (bytes)", "Use Threads", "Time Taken (s)",
    "Download Speed (Mbps)">>

\* ProductStep with the loops exchanged: for y in pool for x in result
ProductStep_PoolSlowest(result, pool) ==
  [k \in 1..(Len(result) * Len(pool)) |->
     Append(result[((k - 1) % Len(result)) + 1],
            pool[((k - 1) \div Len(result)) + 1])]

\* one step of itertools.product: [x + [y] for x in result for y in pool]
ProductStep(result, pool) ==
  [k \in 1..(Len(result) * Len(pool)) |->
     Append(result[((k - 1) \div Len(pool)) + 1],
            pool[((k - 1) % Len(pool)) + 1])]

\* itertools.product(a, b, c, d): result = [[]], extended pool by pool
Product(a, b, c, d) ==
  ProductStep(ProductStep(ProductStep(ProductStep(<< <<>> >>, a), b), c), d)

\* MaxIndex replacing the best so far on an equal key as well
RECURSIVE MaxIndex_LastMaximum(_, _, _)
MaxIndex_LastMaximum(rows, k, best) ==
  IF k > Len(rows) THEN best
  ELSE MaxIndex_LastMaximum(rows, k + 1,
         IF ~SpeedGreater(rows[best][6], rows[k][6]) THEN k ELSE best)

\* index of max(results, key=lambda x: x[5]) scanning from position k with
\* the best so far at position best: replaced only by a strictly greater key
RECURSIVE MaxIndex(_, _, _)
MaxIndex(rows, k, best) ==
  IF k > Len(rows) THEN best
  ELSE MaxIndex(rows, k + 1,
                IF SpeedGreater(rows[k][6], rows[best][6]) THEN k ELSE best)

\* find_fastest_parameters(results) for non-empty results: the dict built
\* from best_result
find_fastest_parameters(rows) ==
  LET best_result == rows[MaxIndex(rows, 2, 1)]
  IN [name \in {TuneHeader[c] : c \in 1..6} |->
        best_result[CHOOSE c \in 1..6 : TuneHeader[c] = name]]

\* main(), lines 121-142
Tune_Main ==
  /\ mode = "tune" /\ pc = "main"
  /\ IF /\ IsIntLiteral(env.TUNE_FILE_SIZE)
        /\ AllIntLiterals(env.TUNE_MULTIPART_THRESHOLD)
        /\ AllIntLiterals(env.TUNE_MAX_CONCURRENCY)
        /\ AllIntLiterals(env.TUNE_MULTIPART_CHUNKSIZE)
       THEN /\ configs' = Product(MapInt(env.TUNE_MULTIPART_THRESHOLD),
                                  MapInt(env.TUNE_MAX_CONCURRENCY),
                                  MapInt(env.TUNE_MULTIPART_CHUNKSIZE),
                                  env.TUNE_USE_THREADS)
            /\ pc' = "for"
            /\ err' = err
       ELSE /\ Raise("ValueError")
            /\ configs' = configs
  /\ UNCHANGED <<mode, env, i, results, disk, active, time_taken, file_size,
                 speed_mbps, csv, plot, json, best_params, events>>

\* for ... in parameter_combinations
Tune_For ==
  /\ mode = "tune" /\ pc = "for"
  /\ IF i < Len(configs)
       THEN /\ i' = i + 1
            /\ pc' = "download_file"
       ELSE /\ i' = i
            /\ pc' = "save_results_to_csv"
  /\ events' = <<>>
  /\ UNCHANGED <<mode, env, configs, results, disk, active, time_taken,
                 file_size, speed_mbps, csv, plot, json, best_params, err>>

\* lines 146-159 and download_file, lines 38-39
Tune_DownloadFileCall ==
  /\ mode = "tune" /\ pc = "download_file"
  /\ active' = active \cup
       {[run |-> i, direction |-> "download",
         path |-> <<"downloaded", IntOf(env.TUNE_FILE_SIZE)>>,
         key |-> <<"example", IntOf(env.TUNE_FILE_SIZE)>>,
         config |-> TransferConfig(configs[i][1], configs[i][2], configs[i][3],
                                   UseThreadsBool(configs[i][4]))]}
  /\ events' = events \o <<"start_timer", "transfer">>
  /\ pc' = "download_file_wait"
  /\ UNCHANGED <<mode, env, configs, i, results, disk, time_taken, file_size,
                 speed_mbps, csv, plot, json, best_params, err>>

\* Tune_DownloadFileReturn with the failure caught and the loop continued
Tune_DownloadFileReturn_Caught ==
  /\ mode = "tune" /\ pc = "download_file_wait"
  /\ active' = {t \in active : t.run # i}
  /\ \/ \E d \in Durations :
          /\ time_taken' = d
          /\ disk' = disk \cup {<<"downloaded", IntOf(env.TUNE_FILE_SIZE)>>}
          /\ events' = Append(events, "stop_timer")
          /\ pc' = "getsize"
          /\ err' = err
     \/ /\ err' = "TransferClientError"
        /\ pc' = "for"
        /\ UNCHANGED <<time_taken, disk, events>>
  /\ UNCHANGED <<mode, env, configs, i, results, file_size, speed_mbps, csv,
                 plot, json, best_params>>

\* download_file, lines 39-42
Tune_DownloadFileReturn ==
  /\ mode = "tune" /\ pc = "download_file_wait"
  /\ active' = {t \in active : t.run # i}
  /\ \/ \E d \in Durations :
          /\ time_taken' = d
          /\ disk' = disk \cup {<<"downloaded", IntOf(env.TUNE_FILE_SIZE)>>}
          /\ events' = Append(events, "stop_timer")
          /\ pc' = "getsize"
          /\ err' = err
     \/ /\ Raise("TransferClientError")
        /\ UNCHANGED <<time_taken, disk, events>>
  /\ UNCHANGED <<mode, env, configs, i, results, file_size, speed_mbps, csv,
                 plot, json, best_params>>

\* line 160: file_size = os.path.getsize(download_path)
Tune_GetSize ==
  /\ mode = "tune" /\ pc = "getsize"
  /\ file_size' = RemoteObjectBytes(IntOf(env.TUNE_FILE_SIZE))
  /\ events' = Append(events, "sample_size")
  /\ pc' = "calculate_speed"
  /\ UNCHANGED <<mode, env, configs, i, results, disk, active, time_taken,
                 speed_mbps, csv, plot, json, best_params, err>>

\* line 161: speed_mbps = calculate_speed(time_taken, file_size)
Tune_CalculateSpeed ==
  /\ mode = "tune" /\ pc = "calculate_speed"
  /\ IF time_taken = 0
       THEN /\ Raise("ZeroDivisionError")
            /\ speed_mbps' = speed_mbps
       ELSE /\ speed_mbps' = calculate_speed(time_taken, file_size)
            /\ pc' = "append"
            /\ err' = err
  /\ UNCHANGED <<mode, env, configs, i, results, disk, active, time_taken,
                 file_size, csv, plot, json, best_params, events>>

\* lines 166-173: results.append([...])
Tune_Append ==
  /\ mode = "tune" /\ pc = "append"
  /\ results' = Append(results,
       <<configs[i][1], configs[i][2], configs[i][3], configs[i][4],
         time_taken, speed_mbps>>)
  /\ events' = Append(events, "append")
  /\ pc' = "remove"
  /\ UNCHANGED <<mode, env, configs, i, disk, active, time_taken, file_size,
                 speed_mbps, csv, plot, json, best_params, err>>

\* line 176: os.remove(download_path)
Tune_Remove ==
  /\ mode = "tune" /\ pc = "remove"
  /\ disk' = disk \ {<<"downloaded", IntOf(env.TUNE_FILE_SIZE)>>}
  /\ events' = Append(events, "remove")
  /\ pc' = "for"
  /\ UNCHANGED <<mode, env, configs, i, results, active, time_taken,
                 file_size, speed_mbps, csv, plot, json, best_params, err>>

\* line 186: save_results_to_csv(results, filename=csv_file_name)
Tune_SaveResultsToCsv ==
  /\ mode = "tune" /\ pc = "save_results_to_csv"
  /\ csv' = [exists |-> TRUE, header |-> TuneHeader, rows |-> results]
  /\ pc' = "plot_results"
  /\ UNCHANGED <<mode, env, configs, i, results, disk, active, time_taken,
                 file_size, speed_mbps, plot, json, best_params, err, events>>

\* line 189: plot_results(results, output_file=plot_file_name)
Tune_PlotResults ==
  /\ mode = "tune" /\ pc = "plot_results"
  /\ \/ /\ plot' = TRUE
        /\ pc' = "find_fastest_parameters"
        /\ err' = err
     \/ /\ Raise("PlotError")
        /\ plot' = plot
  /\ UNCHANGED <<mode, env, configs, i, results, disk, active, time_taken,
                 file_size, speed_mbps, csv, json, best_params, events>>

\* Tune_FindFastestParameters that answers an empty ResultSet with an empty
\* dict instead of raising
Tune_FindFastestParameters_Default ==
  /\ mode = "tune" /\ pc = "find_fastest_parameters"
  /\ best_params' = IF results = <<>>
                      THEN NoBest
                      ELSE [found |-> TRUE,
                            dict |-> find_fastest_parameters(results)]
  /\ pc' = "save_fastest_to_json"
  /\ UNCHANGED <<mode, env, configs, i, results, disk, active, time_taken,
                 file_size, speed_mbps, csv, plot, json, err, events>>

\* line 192: best_params = find_fastest_parameters(results); max() of an
\* empty list raises ValueError
Tune_FindFastestParameters ==
  /\ mode = "tune" /\ pc = "find_fastest_parameters"
  /\ IF results = <<>>
       THEN /\ Raise("ValueError")
            /\ best_params' = best_params
       ELSE /\ best_params' = [found |-> TRUE,
                               dict |-> find_fastest_parameters(results)]
            /\ pc' = "save_fastest_to_json"
            /\ err' = err
  /\ UNCHANGED <<mode, env, configs, i, results, disk, active, time_taken,
                 file_size, speed_mbps, csv, plot, json, events>>

\* line 198: save_fastest_to_json(best_params, json_file_name)
Tune_SaveFastestToJson ==
  /\ mode = "tune" /\ pc = "save_fastest_to_json"
  /\ json' = best_params
  /\ pc' = "done"
  /\ UNCHANGED <<mode, env, configs, i, results, disk, active, time_taken,
                 file_size, speed_mbps, csv, plot, best_params, err, events>>

Next ==
  \/ Upload_Main
  \/ Upload_For
  \/ Upload_CreateDummyFile
  \/ Upload_UploadFileCall
  \/ Upload_UploadFileReturn
  \/ Upload_GetSize
  \/ Upload_CalculateSpeed
  \/ Upload_Append
  \/ Upload_Remove
  \/ Upload_SaveResultsToCsv
  \/ Upload_PlotResults
  \/ Download_Main
  \/ Download_For
  \/ Download_DownloadFileCall
  \/ Download_DownloadFileReturn
  \/ Download_GetSize
  \/ Download_CalculateSpeed
  \/ Download_Append
  \/ Download_Remove
  \/ Download_SaveResultsToCsv
  \/ Download_PlotResults
  \/ Tune_Main
  \/ Tune_For
  \/ Tune_DownloadFileCall
  \/ Tune_DownloadFileReturn
  \/ Tune_GetSize
  \/ Tune_CalculateSpeed
  \/ Tune_Append
  \/ Tune_Remove
  \/ Tune_SaveResultsToCsv
  \/ Tune_PlotResults
  \/ Tune_FindFastestParameters
  \/ Tune_SaveFastestToJson

Spec == Init /\ [][Next]_vars

\* ------------------------------------- the selector applied on its own
\* ResultSets of a tuning sweep: any rows, the empty list included
SelectorRows ==
  {<<thr, 1, 4, "True", m[1], calculate_speed(m[1], m[2])>> :
     thr \in {5, 8}, m \in {<<1, MiB>>, <<2, 2 * MiB>>, <<2, MiB>>}}

SelectorEnv ==
  [TUNE_FILE_SIZE |-> "1", TUNE_MULTIPART_THRESHOLD |-> <<"5", "8">>,
   TUNE_MAX_CONCURRENCY |-> <<"1">>, TUNE_MULTIPART_CHUNKSIZE |-> <<"4">>,
   TUNE_USE_THREADS |-> <<"True">>]

InitSelector ==
  /\ mode = "tune"
  /\ env = SelectorEnv
  /\ pc = "find_fastest_parameters"
  /\ configs = <<>>
  /\ i = 0
  /\ results \in UNION {[1..n -> SelectorRows] : n \in 0..MaxRows}
  /\ disk = {}
  /\ active = {}
  /\ time_taken = 0
  /\ file_size = 0
  /\ speed_mbps = NoSpeed
  /\ csv = NoFile
  /\ plot = FALSE
  /\ json = NoBest
  /\ best_params = NoBest
  /\ err = ""
  /\ events = <<>>

NextSelector ==
  \/ Tune_FindFastestParameters
  \/ Tune_SaveFastestToJson

SpecSelector == InitSelector /\ [][NextSelector]_vars
\* ================================================================ claims
Thresholds == env.TUNE_MULTIPART_THRESHOLD
Concurrencies == env.TUNE_MAX_CONCURRENCY
Chunksizes == env.TUNE_MULTIPART_CHUNKSIZE
UseThreadsOptions == env.TUNE_USE_THREADS

\* the loop has been left at its end (not by an exception inside it)
LoopCompleted ==
  \/ pc \in {"save_results_to_csv", "plot_results", "find_fastest_parameters",
             "save_fastest_to_json", "done"}
  \/ err = "PlotError"

\* position of the tuple (a, b, c, d) in nested order, a slowest, d fastest
NestedIndex(a, b, c, d) ==
  (((a - 1) * Len(Concurrencies) + (b - 1)) * Len(Chunksizes) + (c - 1))
     * Len(UseThreadsOptions) + d

\* C1: in the tuning sweep the configurations are exactly the w*x*y*z tuples
\* of the cartesian product, in nested order with the threshold slowest and
\* use_threads fastest; every transfer started and every result recorded
\* belongs to the tuple at its position, and a sweep that leaves the loop at
\* its end has run all w*x*y*z of them.
C1_CartesianProductSweep ==
  (mode = "tune" /\ pc \notin {"main"} /\ err # "ValueError") =>
    /\ Len(configs) = Len(Thresholds) * Len(Concurrencies)
                        * Len(Chunksizes) * Len(UseThreadsOptions)
    /\ \A a \in 1..Len(Thresholds), b \in 1..Len(Concurrencies),
          c \in 1..Len(Chunksizes), d \in 1..Len(UseThreadsOptions) :
         configs[NestedIndex(a, b, c, d)] =
           <<IntOf(Thresholds[a]), IntOf(Concurrencies[b]),
             IntOf(Chunksizes[c]), UseThreadsOptions[d]>>
    /\ \A t \in active :
         t.config = TransferConfig(configs[t.run][1], configs[t.run][2],
                                   configs[t.run][3],
                                   UseThreadsBool(configs[t.run][4]))
    /\ \A k \in 1..Len(results) :
         <<results[k][1], results[k][2], results[k][3], results[k][4]>>
           = configs[k]
    /\ LoopCompleted => Len(results) = Len(configs)

\* a completed tuning sweep of eight configurations in which the threshold,
\* the concurrency and use_threads each take two different values
C1_Witness ==
  /\ mode = "tune" /\ csv.exists /\ Len(results) = 8
  /\ Len(Thresholds) = 2 /\ Thresholds[1] # Thresholds[2]
  /\ Len(Concurrencies) = 2 /\ Concurrencies[1] # Concurrencies[2]
  /\ Len(UseThreadsOptions) = 2 /\ UseThreadsOptions[1] # UseThreadsOptions[2]
  /\ results[2][1] = results[1][1] /\ results[2][4] # results[1][4]
  /\ results[5][1] # results[1][1]

\* throughput a strictly above throughput b, both in Mbps
Faster(a, b) == a.num * (b.den \div Mega) > b.num * (a.den \div Mega)

\* C2: for a non-empty ResultSet find_fastest_parameters returns a result
\* whose throughput no other result exceeds, and among the results of
\* maximal throughput the one appended first.
C2_SelectorFirstMaximum ==
  (results # <<>> /\ pc # "find_fastest_parameters") =>
    /\ best_params.found
    /\ \E k \in 1..Len(results) :
         /\ \A j \in 1..Len(results) : ~Faster(results[j][6], results[k][6])
         /\ \A j \in 1..(k - 1) : Faster(results[k][6], results[j][6])
         /\ \A c \in 1..6 : best_params.dict[TuneHeader[c]] = results[k][c]

\* the maximum is shared by the second and third result, which differ, and
\* the second is returned
C2_Witness ==
  /\ pc = "save_fastest_to_json" /\ Len(results) = 3
  /\ Faster(results[2][6], results[1][6])
  /\ ~Faster(results[2][6], results[3][6])
  /\ ~Faster(results[3][6], results[2][6])
  /\ results[2][1] # results[3][1]
  /\ best_params.dict["Multipart Threshold (bytes)"] = results[2][1]
\* the local artifact of the run in progress that is an upload's source
OwnUploadSource == IF mode = "upload" THEN {<<"dummy", configs[i]>>} ELSE {}

\* C3: runs are strictly sequential: never two transfers in progress, and a
\* transfer is started only when no other is in progress, the results of all
\* earlier runs have been appended and their local artifacts removed.
C3_StrictlySequential ==
  /\ [](Cardinality(active) <= 1)
  /\ [][(active' # active /\ active' # {}) =>
          /\ active = {}
          /\ \A t \in active' : t.run = i
          /\ Len(results) = i - 1
          /\ disk \subseteq OwnUploadSource]_vars

\* the second transfer of an upload sweep over two different sizes is in
\* progress
C3_Witness ==
  /\ mode = "upload" /\ i = 2 /\ active # {} /\ Len(results) = 1
  /\ configs[1] # configs[2]

\* C4: when a sweep has left its loop at the end, results holds one entry
\* per generated configuration in execution order, the CSV rows are exactly
\* these entries, and in a fixed-size sweep there are len(FILE_SIZES) rows,
\* the k-th carrying the k-th size.
C4_OneRowPerConfiguration ==
  /\ LoopCompleted =>
       /\ Len(results) = Len(configs)
       /\ mode \in {"upload", "download"} =>
            /\ Len(results) = Len(env.FILE_SIZES)
            /\ \A k \in 1..Len(results) :
                 results[k][1] = IntOf(env.FILE_SIZES[k])
       /\ mode = "tune" =>
            \A k \in 1..Len(results) :
              <<results[k][1], results[k][2], results[k][3], results[k][4]>>
                = configs[k]
  /\ csv.exists => (LoopCompleted /\ csv.rows = results)

\* a completed upload sweep over two different sizes has written its CSV
C4_Witness ==
  /\ mode = "upload" /\ csv.exists /\ Len(csv.rows) = 2
  /\ csv.rows[1][1] # csv.rows[2][1]
  /\ Len(env.FILE_SIZES) = 2

\* the run ended because its transfer or its measurement failed
RunFailed == err \in {"TransferClientError", "ZeroDivisionError"}

\* C5: the local artifact of a run is deleted after every run, also when the
\* run's transfer or measurement fails: once a run has ended (normally or by
\* such a failure) no artifact is left on disk.
C5_ArtifactRemovedAfterEveryRun ==
  (pc = "for" \/ LoopCompleted \/ RunFailed) => disk = {}

\* the sweep's configuration input is invalid: a list with an empty entry,
\* or a subject size that is zero or negative
InvalidConfiguration ==
  \/ /\ mode \in {"upload", "download"}
     /\ \E k \in 1..Len(env.FILE_SIZES) :
          \/ ~IsIntLiteral(env.FILE_SIZES[k])
          \/ IntOf(env.FILE_SIZES[k]) <= 0
  \/ /\ mode = "tune"
     /\ IntOf(env.TUNE_FILE_SIZE) <= 0

\* C6: a sweep with invalid configuration input fails with a configuration
\* error (the ValueError of the rejected input) before any transfer is
\* invoked and before any artifact is created; it never runs.
C6_InvalidConfigurationFailsFirst ==
  (InvalidConfiguration /\ pc # "main") =>
    /\ pc = "aborted" /\ err = "ValueError"
    /\ i = 0 /\ active = {} /\ disk = {} /\ results = <<>>

\* C7: in the tuning sweep the CSV and the best-configuration JSON are both
\* on disk when chart rendering starts, so they are there when it fails.
C7_ChartRenderedLast ==
  (mode = "tune" /\ (pc = "plot_results" \/ err = "PlotError")) =>
    (csv.exists /\ json.found)

\* C8: find_fastest_parameters on an empty ResultSet fails (max() raises
\* ValueError, the EmptyResultError of this program) and returns no result.
C8_SelectorEmptyFails ==
  (results = <<>> /\ pc # "find_fastest_parameters") =>
    /\ pc = "aborted" /\ err = "ValueError"
    /\ ~best_params.found /\ ~json.found

\* the selector has been applied to the empty ResultSet
C8_Witness ==
  /\ results = <<>> /\ pc = "aborted" /\ csv = NoFile /\ configs = <<>>

\* C9: a failing transfer is not caught: after it no later configuration is
\* run, nothing more is recorded, and neither the CSV nor the JSON nor the
\* chart of the sweep is written.
C9_TransferFailureAbortsSweep ==
  /\ [](err = "TransferClientError" =>
          (active = {} /\ ~csv.exists /\ ~json.found /\ ~plot))
  /\ [][err = "TransferClientError" =>
          UNCHANGED <<i, results, active, csv, json, plot, events>>]_vars

\* a transfer failed after an earlier run had succeeded and with
\* configurations still to run
C9_Witness ==
  /\ err = "TransferClientError" /\ Len(results) >= 1 /\ i < Len(configs)

UploadRunOrder ==
  <<"create", "start_timer", "transfer", "stop_timer", "sample_size",
    "append", "remove">>

\* C10 as stated: in an upload run the size is sampled before the transfer
\* is started.
C10_SizeSampledBeforeTransfer ==
  mode = "upload" =>
    \A k \in 1..Len(events) :
      events[k] = "transfer" =>
        \E j \in 1..(k - 1) : events[j] = "sample_size"

\* C10 amended: in an upload run the size is sampled after the transfer has
\* returned and the timer has stopped; the order of events is create
\* artifact, start timer, transfer, stop timer, sample size.
C10_SizeSampledAfterTransfer ==
  mode = "upload" =>
    /\ Len(events) <= Len(UploadRunOrder)
    /\ \A k \in 1..Len(events) : events[k] = UploadRunOrder[k]
    /\ pc = "calculate_speed" => (events[Len(events)] = "sample_size"
                                  /\ file_size = configs[i] * MiB
                                  /\ active = {})

\* an upload run has just sampled the size of its source file
C10_Witness ==
  /\ mode = "upload" /\ pc = "calculate_speed" /\ file_size > 0
  /\ events = <<"create", "start_timer", "transfer", "stop_timer",
                "sample_size">>

\* the run in progress has stopped its timer on a duration of exactly 0
ZeroDurationMeasured ==
  /\ time_taken = 0
  /\ \E k \in 1..Len(events) : events[k] = "stop_timer"

\* C11: a run whose measured duration is exactly 0 is still recorded, with a
\* floored duration or an undefined throughput and never an infinite one,
\* and the sweep goes on to the next configuration instead of failing.
C11_ZeroDurationRecorded ==
  (ZeroDurationMeasured /\ pc \notin {"getsize", "calculate_speed"}) =>
    /\ err = "" /\ pc \in {"append", "remove"}
    /\ speed_mbps.den > 0
    /\ pc = "remove" => Len(results) = i
====
